---- MODULE Spec2Model ----
(***************************************************************************)
(* Model of lib/storage/glance.py: the GlanceStorage dispatcher, the       *)
(* GlanceStorageLayers backend (registry paths mapped onto Glance image    *)
(* records) and the tag_created / tag_deleted signal handlers.             *)
(*                                                                         *)
(* Python strings are modelled as sequences of tokens: a token is a piece  *)
(* of text that the code never looks inside ("images", "/", "x", ...).     *)
(* Concatenation is \o, str.split('/') is Split, str.startswith is         *)
(* StartsWith.  None and every other falsy string are the empty sequence.  *)
(***************************************************************************)
EXTENDS Integers, Sequences, FiniteSets, TLC

VARIABLES
    glance,     \* the image service's records: native handle -> record
    lastOp,     \* the layer-store call or tag event that ran last, with its outcome
    disp,       \* the dispatcher call that ran last, with its outcome
    written,    \* history: image-ids a write entry point has looked up or created
    removed,    \* history: image-ids whose record was removed and not written since
    gs,         \* the GlanceStorage object: its construction, config and _storage_tags
    regtags,    \* history: the registry's tags, as the tag events announced them
    procs       \* the handlers and calls in progress when they run concurrently

vars == <<glance, lastOp, disp, written, removed, gs, regtags, procs>>

(***************************************************************************)
(* Bounds and input sets                                                   *)
(***************************************************************************)
MaxRecords == 2

Handles == 1..MaxRecords

None == << >>

NoImage == 0

ImageIds == {<<"x">>, <<"y">>}

PropFiles == {<<"a">>, <<"b">>}

Contents == {<<"v1">>, <<"v2">>}

Streams == {<<"d">>}

Namespaces == {<<"library">>, <<"ns">>}

Repositories == {<<"r">>}

Tags == {<<"t">>}

(***************************************************************************)
(* Strings                                                                 *)
(***************************************************************************)
images == <<"images">>

repositories == <<"repositories">>

disk_format == <<"raw">>

container_format == <<"bare">>

StartsWith(s, prefix) ==
    /\ Len(s) >= Len(prefix)
    /\ SubSeq(s, 1, Len(prefix)) = prefix

RECURSIVE Split(_)
Split(s) ==
    IF \A i \in 1..Len(s) : s[i] # "/"
    THEN <<s>>
    ELSE LET k == CHOOSE i \in 1..Len(s) :
                      /\ s[i] = "/"
                      /\ \A j \in 1..(i - 1) : s[j] # "/"
         IN  <<SubSeq(s, 1, k - 1)>> \o Split(SubSeq(s, k + 1, Len(s)))

LayerPath(image_id, filename) == images \o <<"/">> \o image_id \o <<"/">> \o filename

Files(image_id) == IF image_id = <<"x">> THEN PropFiles ELSE {}

GoodPaths ==
    UNION {{LayerPath(i, f) : f \in Files(i) \cup {<<"layer">>}} : i \in ImageIds}

\* "images/x", "imagesx/x/a", "images/x/a/b"
BadPaths ==
    { images \o <<"/">> \o <<"x">>,
      images \o <<"x">> \o <<"/">> \o <<"x">> \o <<"/">> \o <<"a">>,
      images \o <<"/">> \o <<"x">> \o <<"/">> \o <<"a">> \o <<"/">> \o <<"b">> }

Paths == GoodPaths \cup BadPaths

(***************************************************************************)
(* The image service (glanceclient v1): records and the calls the code     *)
(* makes on them.                                                          *)
(***************************************************************************)
ImagesCreate(g, h, df, cf, props) ==
    [k \in DOMAIN g \cup {h} |->
        IF k = h
        THEN [disk_format |-> df, container_format |-> cf, properties |-> props,
              name |-> None, data |-> None, size |-> 0]
        ELSE g[k]]

MergeProps(old, new) ==
    [p \in DOMAIN old \cup DOMAIN new |-> IF p \in DOMAIN new THEN new[p] ELSE old[p]]

\* image.update(properties=props, purge_props=purge): the given properties
\* replace the record's when purge is TRUE and are merged into them otherwise
UpdateProperties(g, h, props, purge) ==
    [g EXCEPT ![h].properties = IF purge THEN props ELSE MergeProps(@, props)]

\* image.update(name=n, purge_props=False)
UpdateName(g, h, n) == [g EXCEPT ![h].name = n]

\* image.update(data=fp, purge_props=False)
UpdateData(g, h, fp) == [g EXCEPT ![h].data = fp, ![h].size = Len(fp)]

\* image.delete()
ImageDelete(g, h) == [k \in DOMAIN g \ {h} |-> g[k]]

\* glance.images.list(filters=...)
ImagesListById(g, df, cf, image_id) ==
    {h \in DOMAIN g :
        /\ g[h].disk_format = df
        /\ g[h].container_format = cf
        /\ <<"id">> \in DOMAIN g[h].properties
        /\ g[h].properties[<<"id">>] = image_id}

ImagesListByName(g, image_name) == {h \in DOMAIN g : g[h].name = image_name}

\* the update without a purge_props keyword sends no purge header, and the
\* service then purges the properties the update does not name
PurgeDefault == TRUE

FreshHandle(g) == CHOOSE h \in Handles \ DOMAIN g : \A k \in Handles \ DOMAIN g : h <= k

(***************************************************************************)
(* GlanceStorageLayers                                                     *)
(***************************************************************************)
_find_image_by_id(g, image_id) ==
    LET found == ImagesListById(g, disk_format, container_format, image_id)
    IN  IF found # {}
        THEN CHOOSE h \in found : \A k \in found : h <= k
        ELSE NoImage

PropName(filename) ==
    IF filename = <<"layer">> THEN None ELSE <<"meta_">> \o filename

\* variant of _init_path: the namespace is tested by prefix, as the dispatcher
\* tests it
_init_path_prefix(g, path, create) ==
    LET parts == Split(path) IN
    IF Len(parts) # 3 \/ ~StartsWith(path, images)
    THEN [error |-> "InvalidPath", glance |-> g, image |-> NoImage,
          propname |-> None, image_id |-> None]
    ELSE LET image_id == parts[2]
             filename == parts[3]
             image    == _find_image_by_id(g, image_id)
             h        == FreshHandle(g)
         IN  IF image = NoImage /\ create
             THEN [error |-> "none",
                   glance |-> ImagesCreate(g, h, disk_format, container_format,
                                           [p \in {<<"id">>} |-> image_id]),
                   image |-> h, propname |-> PropName(filename), image_id |-> image_id]
             ELSE [error |-> "none", glance |-> g, image |-> image,
                   propname |-> PropName(filename), image_id |-> image_id]

\* the outcome of _init_path: the error raised (or "none"), the service's
\* records afterwards, the record found or created, and the property name
_init_path(g, path, create) ==
    LET parts == Split(path) IN
    IF Len(parts) # 3 \/ parts[1] # images
    THEN [error |-> "InvalidPath", glance |-> g, image |-> NoImage,
          propname |-> None, image_id |-> None]
    ELSE LET image_id == parts[2]
             filename == parts[3]
             image    == _find_image_by_id(g, image_id)
             h        == FreshHandle(g)
         IN  IF image = NoImage /\ create
             THEN [error |-> "none",
                   glance |-> ImagesCreate(g, h, disk_format, container_format,
                                           [p \in {<<"id">>} |-> image_id]),
                   image |-> h, propname |-> PropName(filename), image_id |-> image_id]
             ELSE [error |-> "none", glance |-> g, image |-> image,
                   propname |-> PropName(filename), image_id |-> image_id]

CanInit(g, path) ==
    LET parts == Split(path) IN
    \/ Len(parts) # 3
    \/ parts[1] # images
    \/ _find_image_by_id(g, parts[2]) # NoImage
    \/ Handles \ DOMAIN g # {}

NoEvent == [namespace |-> None, repository |-> None, tag |-> None, value |-> None]

Op(op, path, content, error) ==
    [op |-> op, path |-> path, content |-> content, event |-> NoEvent,
     error |-> error, result |-> None, flag |-> FALSE, size |-> 0]

NoOp == Op("none", None, None, "none")

\* history of the write and remove calls, by image-id
Note(r, op) ==
    /\ written' = IF op \in {"put_content", "stream_write"} /\ r.error # "InvalidPath"
                  THEN written \cup {r.image_id} ELSE written
    /\ removed' = IF op \in {"put_content", "stream_write"} /\ r.error # "InvalidPath"
                  THEN removed \ {r.image_id}
                  ELSE IF op = "remove" /\ r.error = "none" /\ r.propname = None
                       THEN removed \cup {r.image_id} ELSE removed

\* variant of GetContent: the missing record is reported before the usage check
GetContent_found_first(g, path) ==
    LET r == _init_path(g, path, FALSE) IN
    IF r.error # "none" THEN Op("get_content", path, None, r.error)
    ELSE IF r.image = NoImage THEN Op("get_content", path, None, "NotFound")
    ELSE IF r.propname = None THEN Op("get_content", path, None, "UsageMismatch")
    ELSE IF r.propname \notin DOMAIN g[r.image].properties
         THEN Op("get_content", path, None, "NotFound")
    ELSE [Op("get_content", path, None, "none")
             EXCEPT !.result = g[r.image].properties[r.propname]]

\* the outcome of get_content(path) on the records g
GetContent(g, path) ==
    LET r == _init_path(g, path, FALSE) IN
    IF r.error # "none" THEN Op("get_content", path, None, r.error)
    ELSE IF r.propname = None THEN Op("get_content", path, None, "UsageMismatch")
    ELSE IF r.image = NoImage \/ r.propname \notin DOMAIN g[r.image].properties
         THEN Op("get_content", path, None, "NotFound")
    ELSE [Op("get_content", path, None, "none")
             EXCEPT !.result = g[r.image].properties[r.propname]]

get_content(path) ==
    /\ glance' = _init_path(glance, path, FALSE).glance
    /\ lastOp' = GetContent(glance, path)
    /\ Note(_init_path(glance, path, FALSE), "get_content")

\* variant of put_content: the update purges the properties it does not name
put_content_purge(path, content) ==
    LET r == _init_path(glance, path, TRUE) IN
    /\ CanInit(glance, path)
    /\ IF r.error # "none"
       THEN /\ glance' = r.glance
            /\ lastOp' = Op("put_content", path, content, r.error)
       ELSE IF r.propname = None
       THEN /\ glance' = r.glance
            /\ lastOp' = Op("put_content", path, content, "UsageMismatch")
       ELSE /\ glance' = UpdateProperties(r.glance, r.image,
                                          [p \in {r.propname, <<"id">>} |->
                                              IF p = r.propname THEN content
                                              ELSE r.image_id], TRUE)
            /\ lastOp' = Op("put_content", path, content, "none")
    /\ Note(r, "put_content")

put_content(path, content) ==
    LET r == _init_path(glance, path, TRUE) IN
    /\ CanInit(glance, path)
    /\ IF r.error # "none"
       THEN /\ glance' = r.glance
            /\ lastOp' = Op("put_content", path, content, r.error)
       ELSE IF r.propname = None
       THEN /\ glance' = r.glance
            /\ lastOp' = Op("put_content", path, content, "UsageMismatch")
       ELSE /\ glance' = UpdateProperties(r.glance, r.image,
                                          [p \in {r.propname} |-> content], FALSE)
            /\ lastOp' = Op("put_content", path, content, "none")
    /\ Note(r, "put_content")

\* the outcome of stream_read(path) on the records g
StreamRead(g, path) ==
    LET r == _init_path(g, path, FALSE) IN
    IF r.error # "none" THEN Op("stream_read", path, None, r.error)
    ELSE IF r.propname # None THEN Op("stream_read", path, None, "UsageMismatch")
    ELSE IF r.image = NoImage THEN Op("stream_read", path, None, "NotFound")
    ELSE [Op("stream_read", path, None, "none") EXCEPT !.result = g[r.image].data]

stream_read(path) ==
    /\ glance' = _init_path(glance, path, FALSE).glance
    /\ lastOp' = StreamRead(glance, path)
    /\ Note(_init_path(glance, path, FALSE), "stream_read")

stream_write(path, fp) ==
    LET r == _init_path(glance, path, TRUE) IN
    /\ CanInit(glance, path)
    /\ IF r.error # "none"
       THEN /\ glance' = r.glance
            /\ lastOp' = Op("stream_write", path, fp, r.error)
       ELSE IF r.propname # None
       THEN /\ glance' = r.glance
            /\ lastOp' = Op("stream_write", path, fp, "UsageMismatch")
       ELSE /\ glance' = UpdateData(r.glance, r.image, fp)
            /\ lastOp' = Op("stream_write", path, fp, "none")
    /\ Note(r, "stream_write")

\* variant of exists: the bulk-data path exists only once data was written
Exists_strict(g, path) ==
    LET r == _init_path(g, path, FALSE) IN
    IF r.error # "none" THEN Op("exists", path, None, r.error)
    ELSE IF r.image = NoImage THEN Op("exists", path, None, "none")
    ELSE IF r.propname = None
         THEN [Op("exists", path, None, "none") EXCEPT !.flag = g[r.image].data # None]
    ELSE [Op("exists", path, None, "none")
             EXCEPT !.flag = r.propname \in DOMAIN g[r.image].properties]

\* the outcome of exists(path) on the records g
Exists(g, path) ==
    LET r == _init_path(g, path, FALSE) IN
    IF r.error # "none" THEN Op("exists", path, None, r.error)
    ELSE IF r.image = NoImage THEN Op("exists", path, None, "none")
    ELSE IF r.propname = None THEN [Op("exists", path, None, "none") EXCEPT !.flag = TRUE]
    ELSE [Op("exists", path, None, "none")
             EXCEPT !.flag = r.propname \in DOMAIN g[r.image].properties]

\* variant of exists: the lookup creates a missing record, as a write's does
exists_creates(path) ==
    /\ CanInit(glance, path)
    /\ glance' = _init_path(glance, path, TRUE).glance
    /\ lastOp' = Exists(glance, path)
    /\ Note(_init_path(glance, path, FALSE), "exists")

exists(path) ==
    /\ glance' = _init_path(glance, path, FALSE).glance
    /\ lastOp' = Exists(glance, path)
    /\ Note(_init_path(glance, path, FALSE), "exists")

\* variant of DelProp: the property is not deleted
DelProp_keep(props, propname) == props

DelProp(props, propname) == [p \in DOMAIN props \ {propname} |-> props[p]]

\* variant of remove: the bulk-data path clears the data and keeps the record
remove_keeps_record(path) ==
    LET r == _init_path(glance, path, FALSE) IN
    /\ lastOp' = Op("remove", path, None, r.error)
    /\ glance' =
         IF r.error # "none" \/ r.image = NoImage THEN glance
         ELSE IF r.propname # None
              THEN IF r.propname \in DOMAIN glance[r.image].properties
                   THEN UpdateProperties(glance, r.image,
                            DelProp(glance[r.image].properties, r.propname),
                            PurgeDefault)
                   ELSE glance
              ELSE UpdateData(glance, r.image, None)
    /\ Note(r, "remove")

remove(path) ==
    LET r == _init_path(glance, path, FALSE) IN
    /\ lastOp' = Op("remove", path, None, r.error)
    /\ glance' =
         IF r.error # "none" \/ r.image = NoImage THEN glance
         ELSE IF r.propname # None
              THEN IF r.propname \in DOMAIN glance[r.image].properties
                   THEN UpdateProperties(glance, r.image,
                            DelProp(glance[r.image].properties, r.propname),
                            PurgeDefault)
                   ELSE glance
              ELSE ImageDelete(glance, r.image)
    /\ Note(r, "remove")

\* variant of GetSize: a property path has a size only while its property is set
GetSize_of_property(g, path) ==
    LET r == _init_path(g, path, FALSE) IN
    IF r.error # "none" THEN Op("get_size", path, None, r.error)
    ELSE IF r.image = NoImage THEN Op("get_size", path, None, "NotFound")
    ELSE IF r.propname # None /\ r.propname \notin DOMAIN g[r.image].properties
         THEN Op("get_size", path, None, "NotFound")
    ELSE [Op("get_size", path, None, "none") EXCEPT !.size = g[r.image].size]

\* the outcome of get_size(path) on the records g
GetSize(g, path) ==
    LET r == _init_path(g, path, FALSE) IN
    IF r.error # "none" THEN Op("get_size", path, None, r.error)
    ELSE IF r.image = NoImage THEN Op("get_size", path, None, "NotFound")
    ELSE [Op("get_size", path, None, "none") EXCEPT !.size = g[r.image].size]

get_size(path) ==
    /\ glance' = _init_path(glance, path, FALSE).glance
    /\ lastOp' = GetSize(glance, path)
    /\ Note(_init_path(glance, path, FALSE), "get_size")

(***************************************************************************)
(* Tag sync handlers                                                       *)
(***************************************************************************)
\* variant of DisplayName: the namespace is never prefixed
DisplayName_noprefix(namespace, repository, tag) == repository \o <<":">> \o tag

DisplayName(namespace, repository, tag) ==
    LET image_name == repository \o <<":">> \o tag IN
    IF namespace # <<"library">>
    THEN namespace \o <<"/">> \o image_name
    ELSE image_name

\* variant of _clear_images_name: the update purges the properties
_clear_images_name_purge(g, image_name) ==
    LET listed == ImagesListByName(g, image_name) IN
    [h \in DOMAIN g |->
        IF h \in listed
        THEN UpdateName(UpdateProperties(g, h, << >>, TRUE), h, None)[h]
        ELSE g[h]]

\* variant of _clear_images_name: no name is cleared
_clear_images_name_skip(g, image_name) == g

_clear_images_name(g, image_name) ==
    LET listed == ImagesListByName(g, image_name) IN
    [h \in DOMAIN g |-> IF h \in listed THEN UpdateName(g, h, None)[h] ELSE g[h]]

Event(op, namespace, repository, tag, value) ==
    [Op(op, None, None, "none") EXCEPT
        !.event = [namespace |-> namespace, repository |-> repository,
                   tag |-> tag, value |-> value]]

\* variant of _handler_tag_created: a record that has a name keeps it
_handler_tag_created_keep(namespace, repository, tag, value) ==
    LET image      == _find_image_by_id(glance, value)
        image_name == DisplayName(namespace, repository, tag)
    IN  /\ glance' = IF image = NoImage
                     THEN glance
                     ELSE IF glance[image].name # None
                     THEN _clear_images_name(glance, image_name)
                     ELSE UpdateName(_clear_images_name(glance, image_name),
                                     image, image_name)
        /\ lastOp' = Event("tag_created", namespace, repository, tag, value)
        /\ UNCHANGED <<written, removed>>

\* variant of _handler_tag_created: the name is cleared before the lookup result
\* is looked at
_handler_tag_created_eager(namespace, repository, tag, value) ==
    LET image      == _find_image_by_id(glance, value)
        image_name == DisplayName(namespace, repository, tag)
    IN  /\ glance' = IF image = NoImage
                     THEN _clear_images_name(glance, image_name)
                     ELSE UpdateName(_clear_images_name(glance, image_name),
                                     image, image_name)
        /\ lastOp' = Event("tag_created", namespace, repository, tag, value)
        /\ UNCHANGED <<written, removed>>

_handler_tag_created(namespace, repository, tag, value) ==
    LET image      == _find_image_by_id(glance, value)
        image_name == DisplayName(namespace, repository, tag)
    IN  /\ glance' = IF image = NoImage
                     THEN glance
                     ELSE UpdateName(_clear_images_name(glance, image_name),
                                     image, image_name)
        /\ lastOp' = Event("tag_created", namespace, repository, tag, value)
        /\ UNCHANGED <<written, removed>>

\* variant of _handler_tag_deleted: every record's name is cleared
_handler_tag_deleted_all(namespace, repository, tag) ==
    /\ glance' = [h \in DOMAIN glance |-> UpdateName(glance, h, None)[h]]
    /\ lastOp' = Event("tag_deleted", namespace, repository, tag, None)
    /\ UNCHANGED <<written, removed>>

_handler_tag_deleted(namespace, repository, tag) ==
    LET image_name == DisplayName(namespace, repository, tag) IN
    /\ glance' = _clear_images_name(glance, image_name)
    /\ lastOp' = Event("tag_deleted", namespace, repository, tag, None)
    /\ UNCHANGED <<written, removed>>

(***************************************************************************)
(* GlanceStorage: the dispatcher                                           *)
(*                                                                         *)
(* A call is dispatcher(name, args, kwargs).  An argument is a value with  *)
(* its string-ness (isinstance(arg, basestring)); kwargs is a set of       *)
(* (key, argument) pairs.  The three backends are "layers"                 *)
(* (_storage_layers), "tags" (_storage_tags) and "base" (_storage_base).   *)
(***************************************************************************)
Str(s) == [str |-> TRUE, val |-> s]

NonStr == [str |-> FALSE, val |-> <<"obj">>]

HasKw(kwargs, key) == \E e \in kwargs : e.key = key

Kw(kwargs, key) == (CHOOSE e \in kwargs : e.key = key).arg

StorageOps ==
    {"get_content", "put_content", "stream_read", "stream_write",
     "exists", "remove", "get_size"}

\* what getattr(obj, name) finds: a method, a truthy value, a falsy value,
\* or nothing (hasattr is false)
Attr(obj, name) ==
    IF name \in StorageOps THEN "method"
    ELSE IF name = "disk_format" THEN (IF obj = "layers" THEN "value" ELSE "absent")
    ELSE IF name = "supports_bytes_range" THEN "falsy"
    ELSE "absent"

Classify(path) ==
    IF StartsWith(path, images) THEN "layers"
    ELSE IF StartsWith(path, repositories) THEN "tags"
    ELSE "base"

\* variant of PathArg: the first positional argument goes before the named one
PathArg_positional(args, kwargs) ==
    IF Len(args) > 0 /\ args[1].str THEN args[1]
    ELSE IF HasKw(kwargs, "path") THEN Kw(kwargs, "path")
    ELSE Str(<<>>)

PathArg(args, kwargs) ==
    IF HasKw(kwargs, "path") THEN Kw(kwargs, "path")
    ELSE IF Len(args) > 0 /\ args[1].str THEN args[1]
    ELSE Str(<<>>)

\* the backend chosen, and the attribute found on it ("absent": returns None)
_resolve_class_path(method_name, args, kwargs) ==
    LET path == PathArg(args, kwargs) IN
    IF ~path.str
    THEN [error |-> "AttributeError", obj |-> "none", attr |-> "absent"]
    ELSE [error |-> "none", obj |-> Classify(path.val),
          attr |-> Attr(Classify(path.val), method_name)]

\* the parameters of the layer store's methods, after self
Params(name) ==
    IF name = "put_content" THEN <<"path", "content">>
    ELSE IF name = "stream_write" THEN <<"path", "fp">>
    ELSE <<"path">>

\* Python's binding of (*args, **kwargs) to the parameters
BindOK(params, args, kwargs) ==
    /\ Len(args) <= Len(params)
    /\ \A e \in kwargs : \E i \in 1..Len(params) : params[i] = e.key
    /\ \A i \in 1..Len(params) : (i <= Len(args)) # HasKw(kwargs, params[i])

Bound(params, args, kwargs, i) ==
    IF i > Len(params) THEN None
    ELSE IF i <= Len(args) THEN args[i].val
    ELSE Kw(kwargs, params[i]).val

Dispatched(name, args, kwargs, target, invoked, error, returned) ==
    [name |-> name, args |-> args, kwargs |-> kwargs, target |-> target,
     invoked |-> invoked,
     fargs |-> IF invoked = {} THEN << >> ELSE args,
     fkwargs |-> IF invoked = {} THEN {} ELSE kwargs,
     error |-> error, returned |-> returned]

NoDispatch == Dispatched("none", << >>, {}, "none", {}, "none", "none")

\* attr(*args, **kwargs) on a method of the layer store
LayerCall(name, path, arg) ==
    \/ name = "get_content" /\ get_content(path)
    \/ name = "put_content" /\ put_content(path, arg)
    \/ name = "stream_read" /\ stream_read(path)
    \/ name = "stream_write" /\ stream_write(path, arg)
    \/ name = "exists" /\ exists(path)
    \/ name = "remove" /\ remove(path)
    \/ name = "get_size" /\ get_size(path)

Quiet == UNCHANGED <<glance, written, removed>> /\ lastOp' = NoOp

dispatcher(name, args, kwargs) ==
    LET rc == _resolve_class_path(name, args, kwargs) IN
    IF rc.error # "none"
    THEN /\ disp' = Dispatched(name, args, kwargs, "none", {}, rc.error, "none")
         /\ Quiet
    ELSE IF rc.attr \in {"absent", "falsy"}
    THEN /\ disp' = Dispatched(name, args, kwargs, rc.obj, {}, "DispatchFailure", "none")
         /\ Quiet
    ELSE IF rc.attr # "method"
    THEN /\ disp' = Dispatched(name, args, kwargs, rc.obj, {}, "none", "attribute")
         /\ Quiet
    ELSE IF rc.obj # "layers"
    THEN /\ disp' = Dispatched(name, args, kwargs, rc.obj, {rc.obj}, "none", "result")
         /\ Quiet
    ELSE IF ~BindOK(Params(name), args, kwargs)
    THEN /\ disp' = Dispatched(name, args, kwargs, rc.obj, {rc.obj}, "TypeError", "none")
         /\ Quiet
    ELSE /\ disp' = Dispatched(name, args, kwargs, rc.obj, {rc.obj}, "none", "result")
         /\ LayerCall(name, Bound(Params(name), args, kwargs, 1),
                      Bound(Params(name), args, kwargs, 2))

(***************************************************************************)
(* GlanceStorage.__init__: config is a set of (key, value) pairs           *)
(***************************************************************************)
ConfigGet(config, key, default) ==
    IF \E e \in config : e.key = key
    THEN (CHOOSE e \in config : e.key = key).val
    ELSE default

Unbuilt == [status |-> "unbuilt", _config |-> {}, _storage_tags |-> "none"]

\* variant of GlanceStorage_init: an unknown kind falls back to the local store
GlanceStorage_init_lenient(config) ==
    LET kind == ConfigGet(config, "storage_alternate", <<"local">>) IN
    gs' = IF kind = <<"s3">>
          THEN [status |-> "built", _config |-> config, _storage_tags |-> "S3Storage"]
          ELSE [status |-> "built", _config |-> config, _storage_tags |-> "LocalStorage"]

GlanceStorage_init(config) ==
    LET kind == ConfigGet(config, "storage_alternate", <<"local">>) IN
    gs' = IF kind = <<"s3">>
          THEN [status |-> "built", _config |-> config, _storage_tags |-> "S3Storage"]
          ELSE IF kind = <<"local">>
          THEN [status |-> "built", _config |-> config, _storage_tags |-> "LocalStorage"]
          ELSE [status |-> "failed", _config |-> config, _storage_tags |-> "none"]

\* storage_alternate absent, 's3', 'local', 'ftp', ''
Configs ==
    {{}} \cup {{[key |-> "storage_alternate", val |-> k]} :
                  k \in {<<"s3">>, <<"local">>, <<"ftp">>, << >>}}

(***************************************************************************)
(* The calls made on the dispatcher                                        *)
(***************************************************************************)
DispNames == StorageOps \cup {"disk_format", "supports_bytes_range", "nosuch"}

TagPath == repositories \o <<"/">> \o <<"r">> \o <<"/">> \o <<"t">>

UploadPath == <<"uploads">> \o <<"/">> \o <<"u">>

\* "images/x/a", "imagesx/x/a", "repositories/r/t", "uploads/u"
DispPaths ==
    { LayerPath(<<"x">>, <<"a">>),
      images \o <<"x">> \o <<"/">> \o <<"x">> \o <<"/">> \o <<"a">>,
      TagPath, UploadPath }

Rest(name) ==
    IF name = "put_content" THEN <<Str(<<"v1">>)>>
    ELSE IF name = "stream_write" THEN <<Str(<<"d">>)>>
    ELSE << >>

RestKw(name) ==
    IF name = "put_content" THEN {[key |-> "content", arg |-> Str(<<"v1">>)]}
    ELSE IF name = "stream_write" THEN {[key |-> "fp", arg |-> Str(<<"d">>)]}
    ELSE {}

Call(args, kwargs) == [args |-> args, kwargs |-> kwargs]

Calls(name) ==
    {Call(<<Str(p)>> \o Rest(name), {}) : p \in DispPaths}
    \cup { Call(<< >>, {[key |-> "path", arg |-> Str(LayerPath(<<"x">>, <<"a">>))]}
                      \cup RestKw(name)),
           Call(<< >>, {}),
           Call(<<NonStr>>, {}),
           Call(<< >>, {[key |-> "path", arg |-> NonStr]}),
           Call(<<Str(LayerPath(<<"x">>, <<"a">>))>>, {[key |-> "path", arg |-> Str(TagPath)]}),
           Call(<<Str(UploadPath)>>,
                {[key |-> "path", arg |-> Str(LayerPath(<<"x">>, <<"a">>))]}) }

(***************************************************************************)
(* The system: calls and events run one at a time, each to completion; the *)
(* caller then takes the outcome (Return) before the next one starts.      *)
(***************************************************************************)
Idle == lastOp = NoOp /\ disp = NoDispatch

AllNames == {DisplayName(n, r, t) : n \in Namespaces, r \in Repositories, t \in Tags}

NoTags == [live |-> [n \in AllNames |-> None], latest |-> [i \in ImageIds |-> None]]

NoProcs == << >>

Direct == Idle /\ disp' = NoDispatch /\ UNCHANGED <<gs, regtags, procs>>

\* the state after GlanceStorage(config) with no storage_alternate
Init ==
    /\ glance = << >>
    /\ lastOp = NoOp
    /\ disp = NoDispatch
    /\ written = {}
    /\ removed = {}
    /\ gs = [status |-> "built", _config |-> {}, _storage_tags |-> "LocalStorage"]
    /\ regtags = NoTags
    /\ procs = NoProcs

CallGetContent == \E p \in Paths : Direct /\ get_content(p)

CallPutContent == \E p \in Paths, c \in Contents : Direct /\ put_content(p, c)

CallStreamRead == \E p \in Paths : Direct /\ stream_read(p)

CallStreamWrite == \E p \in Paths, fp \in Streams : Direct /\ stream_write(p, fp)

CallExists == \E p \in Paths : Direct /\ exists(p)

CallRemove == \E p \in Paths : Direct /\ remove(p)

CallGetSize == \E p \in Paths : Direct /\ get_size(p)

TagCreated ==
    \E n \in Namespaces, r \in Repositories, t \in Tags, v \in ImageIds :
        Direct /\ _handler_tag_created(n, r, t, v)

TagDeleted ==
    \E n \in Namespaces, r \in Repositories, t \in Tags :
        Direct /\ _handler_tag_deleted(n, r, t)

Dispatch ==
    \E name \in DispNames : \E c \in Calls(name) :
        /\ Idle
        /\ gs.status = "built"
        /\ dispatcher(name, c.args, c.kwargs)
        /\ UNCHANGED <<gs, regtags, procs>>

Return ==
    /\ ~Idle
    /\ lastOp' = NoOp
    /\ disp' = NoDispatch
    /\ UNCHANGED <<glance, written, removed, gs, regtags, procs>>

Next ==
    \/ CallGetContent
    \/ CallPutContent
    \/ CallStreamRead
    \/ CallStreamWrite
    \/ CallExists
    \/ CallRemove
    \/ CallGetSize
    \/ TagCreated
    \/ TagDeleted
    \/ Dispatch
    \/ Return

Spec == Init /\ [][Next]_vars

(***************************************************************************)
(* Construction: the dispatcher is built from a configuration, and calls   *)
(* reach it only once it is built.                                         *)
(***************************************************************************)
InitConfig ==
    /\ glance = << >>
    /\ lastOp = NoOp
    /\ disp = NoDispatch
    /\ written = {}
    /\ removed = {}
    /\ gs = Unbuilt
    /\ regtags = NoTags
    /\ procs = NoProcs

Construct ==
    \E config \in Configs :
        /\ gs.status = "unbuilt"
        /\ GlanceStorage_init(config)
        /\ UNCHANGED <<glance, lastOp, disp, written, removed, regtags, procs>>

NextConfig ==
    \/ Construct
    \/ Dispatch
    \/ Return

SpecConfig == InitConfig /\ [][NextConfig]_vars

(***************************************************************************)
(* Tag lifecycle: writes and atomically handled tag events, no record      *)
(* removed.  regtags records the registry's side of the events: for each   *)
(* DisplayName the image-id its tag was last created with, if the record   *)
(* existed then and the tag was not deleted since, and for each image-id   *)
(* the DisplayName of the tag created last for it.                         *)
(***************************************************************************)
TagFrame == Idle /\ disp' = NoDispatch /\ UNCHANGED <<gs, procs>>

TagWrite ==
    /\ TagFrame
    /\ UNCHANGED regtags
    /\ \/ \E p \in Paths, c \in Contents : put_content(p, c)
       \/ \E p \in Paths, fp \in Streams : stream_write(p, fp)

TagCreatedEvent ==
    \E n \in Namespaces, r \in Repositories, t \in Tags, v \in ImageIds :
        LET found == _find_image_by_id(glance, v) # NoImage IN
        /\ TagFrame
        /\ _handler_tag_created(n, r, t, v)
        /\ regtags' =
             [live   |-> [regtags.live EXCEPT ![DisplayName(n, r, t)] =
                             IF found THEN v ELSE None],
              latest |-> IF found
                         THEN [regtags.latest EXCEPT ![v] = DisplayName(n, r, t)]
                         ELSE regtags.latest]

TagDeletedEvent ==
    \E n \in Namespaces, r \in Repositories, t \in Tags :
        /\ TagFrame
        /\ _handler_tag_deleted(n, r, t)
        /\ regtags' = [regtags EXCEPT !.live[DisplayName(n, r, t)] = None]

NextTags == TagWrite \/ TagCreatedEvent \/ TagDeletedEvent \/ Return

SpecTags == Init /\ [][NextTags]_vars

(***************************************************************************)
(* Concurrent handlers and writes.  The core takes no lock (each call      *)
(* makes its own client), so two handlers or calls interleave between the  *)
(* calls they make on the image service.  Each process runs one            *)
(* tag_created handler or one write; every service call is one step.       *)
(***************************************************************************)
Procs == {"p1", "p2"}

IdleProc ==
    [pc |-> "idle", op |-> "none", path |-> None, arg |-> None, event |-> NoEvent,
     image |-> NoImage, image_name |-> None, todo |-> {}, error |-> "none"]

\* both records exist, without names, as two earlier writes leave them
TwoRecords ==
    ImagesCreate(ImagesCreate(<< >>, 1, disk_format, container_format,
                              [p \in {<<"id">>} |-> <<"x">>]),
                 2, disk_format, container_format, [p \in {<<"id">>} |-> <<"y">>])

InitRace ==
    /\ glance \in {<< >>, TwoRecords}
    /\ lastOp = NoOp
    /\ disp = NoDispatch
    /\ written = {}
    /\ removed = {}
    /\ gs = [status |-> "built", _config |-> {}, _storage_tags |-> "LocalStorage"]
    /\ regtags = NoTags
    /\ procs = [p \in Procs |-> IdleProc]

RaceFrame == UNCHANGED <<lastOp, disp, written, removed, gs, regtags>>

\* the signal delivers tag_created to the handler
StartTagCreated(p) ==
    \E n \in Namespaces, r \in Repositories, t \in Tags, v \in ImageIds :
        /\ procs[p].pc = "idle"
        /\ procs' = [procs EXCEPT ![p] =
              [IdleProc EXCEPT !.pc = "tc_find", !.op = "tag_created",
                  !.event = [namespace |-> n, repository |-> r, tag |-> t, value |-> v]]]
        /\ UNCHANGED glance
        /\ RaceFrame

\* image = self._find_image_by_id(glance, value); with several records of
\* the id the service's list order decides which one is first
TcFind(p) ==
    LET found == ImagesListById(glance, disk_format, container_format,
                                procs[p].event.value)
        ev    == procs[p].event
    IN  /\ procs[p].pc = "tc_find"
        /\ IF found = {}
           THEN procs' = [procs EXCEPT ![p].pc = "done"]
           ELSE \E h \in found :
                   procs' = [procs EXCEPT ![p].pc = "tc_list", ![p].image = h,
                                ![p].image_name =
                                    DisplayName(ev.namespace, ev.repository, ev.tag)]
        /\ UNCHANGED glance
        /\ RaceFrame

\* images = glance.images.list(filters={'name': image_name})
TcList(p) ==
    LET listed == ImagesListByName(glance, procs[p].image_name) IN
    /\ procs[p].pc = "tc_list"
    /\ procs' = [procs EXCEPT ![p].todo = listed,
                              ![p].pc = IF listed = {} THEN "tc_set" ELSE "tc_clear"]
    /\ UNCHANGED glance
    /\ RaceFrame

\* image.update(name=None, purge_props=False), for one listed record
TcClear(p) ==
    \E h \in procs[p].todo :
        /\ procs[p].pc = "tc_clear"
        /\ glance' = UpdateName(glance, h, None)
        /\ procs' = [procs EXCEPT ![p].todo = @ \ {h},
                                  ![p].pc = IF procs[p].todo = {h} THEN "tc_set"
                                            ELSE "tc_clear"]
        /\ RaceFrame

\* image.update(name=image_name, purge_props=False)
TcSet(p) ==
    /\ procs[p].pc = "tc_set"
    /\ glance' = UpdateName(glance, procs[p].image, procs[p].image_name)
    /\ procs' = [procs EXCEPT ![p].pc = "done"]
    /\ RaceFrame

\* put_content(path, content) or stream_write(path, fp) is called
StartWrite(p) ==
    \E path \in GoodPaths, op \in {"put_content", "stream_write"} :
        \E arg \in IF op = "put_content" THEN Contents ELSE Streams :
            /\ procs[p].pc = "idle"
            /\ procs' = [procs EXCEPT ![p] =
                  [IdleProc EXCEPT !.pc = "w_find", !.op = op, !.path = path,
                                   !.arg = arg]]
            /\ UNCHANGED glance
            /\ RaceFrame

\* _init_path: image = self._find_image_by_id(glance, image_id)
WFind(p) ==
    LET found == ImagesListById(glance, disk_format, container_format,
                                Split(procs[p].path)[2])
    IN  /\ procs[p].pc = "w_find"
        /\ IF found = {}
           THEN procs' = [procs EXCEPT ![p].pc = "w_create"]
           ELSE \E h \in found :
                   procs' = [procs EXCEPT ![p].pc = "w_update", ![p].image = h]
        /\ UNCHANGED glance
        /\ RaceFrame

\* _init_path: image = glance.images.create(...)
WCreate(p) ==
    /\ procs[p].pc = "w_create"
    /\ Handles \ DOMAIN glance # {}
    /\ glance' = ImagesCreate(glance, FreshHandle(glance), disk_format,
                              container_format,
                              [q \in {<<"id">>} |-> Split(procs[p].path)[2]])
    /\ procs' = [procs EXCEPT ![p].pc = "w_update", ![p].image = FreshHandle(glance)]
    /\ RaceFrame

\* the usage check, then image.update(properties=props, purge_props=False) or
\* image.update(data=fp, purge_props=False)
WUpdate(p) ==
    LET propname == PropName(Split(procs[p].path)[3])
        isput    == procs[p].op = "put_content"
    IN  /\ procs[p].pc = "w_update"
        /\ IF isput = (propname = None)
           THEN /\ procs' = [procs EXCEPT ![p].pc = "done", ![p].error = "UsageMismatch"]
                /\ UNCHANGED glance
           ELSE /\ procs' = [procs EXCEPT ![p].pc = "done"]
                /\ glance' = IF isput
                             THEN UpdateProperties(glance, procs[p].image,
                                      [q \in {propname} |-> procs[p].arg], FALSE)
                             ELSE UpdateData(glance, procs[p].image, procs[p].arg)
        /\ RaceFrame

NextRace ==
    \/ \E p \in Procs : StartTagCreated(p)
    \/ \E p \in Procs : TcFind(p)
    \/ \E p \in Procs : TcList(p)
    \/ \E p \in Procs : TcClear(p)
    \/ \E p \in Procs : TcSet(p)
    \/ \E p \in Procs : StartWrite(p)
    \/ \E p \in Procs : WFind(p)
    \/ \E p \in Procs : WCreate(p)
    \/ \E p \in Procs : WUpdate(p)

SpecRace == InitRace /\ [][NextRace]_vars

(***************************************************************************)
(* Vocabulary of the properties                                            *)
(***************************************************************************)
IdOf(g, h) == g[h].properties[<<"id">>]

RecordsOf(g, image_id) == {h \in DOMAIN g : IdOf(g, h) = image_id}

Holders(g, name) == {h \in DOMAIN g : g[h].name = name}

PathsOf(image_id) == {LayerPath(image_id, f) : f \in PropFiles \cup {<<"layer">>}}

\* repository:tag, prefixed with namespace/ unless the namespace is 'library'
NameOfEvent(ev) ==
    IF ev.namespace = <<"library">>
    THEN ev.repository \o <<":">> \o ev.tag
    ELSE ev.namespace \o <<"/">> \o ev.repository \o <<":">> \o ev.tag

\* the image-id and the property of a well-formed path images/<id>/<filename>
PathId(path) == Split(path)[2]

PathProp(path) == <<"meta_">> \o Split(path)[3]

IsLayerPath(path) == \E i \in ImageIds : path = LayerPath(i, <<"layer">>)

IsPropPath(path) == \E i \in ImageIds, f \in PropFiles : path = LayerPath(i, f)

(***************************************************************************)
(* C1: in every reachable state, at most one image record holds any given  *)
(* DisplayName (records without a name do not count).                      *)
(***************************************************************************)
C1_AtMostOneHolder ==
    \A h1 \in DOMAIN glance : \A h2 \in DOMAIN glance :
        (h1 # h2 /\ glance[h1].name # None) => glance[h1].name # glance[h2].name

\* a tag event has run and two records hold (different) names
C1_Witness ==
    /\ lastOp.op = "tag_created"
    /\ \E h1 \in DOMAIN glance : \E h2 \in DOMAIN glance :
          h1 # h2 /\ glance[h1].name # None /\ glance[h2].name # None

(***************************************************************************)
(* C2: when tag_created(namespace, repository, tag, image-id) completes    *)
(* and a record with that image-id exists, exactly one record holds the    *)
(* DisplayName, that record carries the image-id, and every other record   *)
(* that held the DisplayName before the event has no name afterwards.      *)
(***************************************************************************)
C2_TagCreatedNamesTheRecord ==
    [][ (lastOp'.op = "tag_created" /\ RecordsOf(glance, lastOp'.event.value) # {})
        => LET ev   == lastOp'.event
               name == NameOfEvent(ev)
           IN  /\ Cardinality(Holders(glance', name)) = 1
               /\ \A h \in Holders(glance', name) :
                     /\ IdOf(glance', h) = ev.value
                     /\ h \in RecordsOf(glance, ev.value)
               /\ \A h \in Holders(glance, name) :
                     IdOf(glance, h) # ev.value
                     => h \in DOMAIN glance' /\ glance'[h].name = None ]_vars

\* tag_created has named the record of its image-id while another record,
\* without a name, is in the store
C2_Witness ==
    /\ lastOp.op = "tag_created"
    /\ \E h \in RecordsOf(glance, lastOp.event.value) :
          glance[h].name = NameOfEvent(lastOp.event)
    /\ \E h \in DOMAIN glance :
          IdOf(glance, h) # lastOp.event.value /\ glance[h].name = None

(***************************************************************************)
(* C3: after put_content(path, v) succeeds on a property path, get_content *)
(* on the same path returns v, and every other property the record had     *)
(* before the put_content still has its previous value.                    *)
(***************************************************************************)
C3_PutThenGet ==
    [][ (lastOp'.op = "put_content" /\ lastOp'.error = "none")
        => /\ GetContent(glance', lastOp'.path).error = "none"
           /\ GetContent(glance', lastOp'.path).result = lastOp'.content
           /\ \A h \in RecordsOf(glance, PathId(lastOp'.path)) :
                 /\ h \in RecordsOf(glance', PathId(lastOp'.path))
                 /\ \A p \in DOMAIN glance[h].properties \ {PathProp(lastOp'.path)} :
                       /\ p \in DOMAIN glance'[h].properties
                       /\ glance'[h].properties[p] = glance[h].properties[p] ]_vars

\* put_content has written one property of a record that holds another
\* property with a different value
C3_Witness ==
    /\ lastOp.op = "put_content"
    /\ lastOp.error = "none"
    /\ \E h \in RecordsOf(glance, PathId(lastOp.path)) :
          \E p \in DOMAIN glance[h].properties \ {PathProp(lastOp.path), <<"id">>} :
              glance[h].properties[p] # lastOp.content

(***************************************************************************)
(* C4 as stated: exists(P) is false while no write has been made for the   *)
(* image-id of P, and true for every path P of image-id I immediately      *)
(* after any successful put_content or stream_write on a path of I.        *)
(***************************************************************************)
C4_ExistsAfterAnyWrite ==
    /\ \A i \in ImageIds \ written : \A p \in PathsOf(i) : ~Exists(glance, p).flag
    /\ (lastOp.op \in {"put_content", "stream_write"} /\ lastOp.error = "none")
       => \A p \in PathsOf(PathId(lastOp.path)) : Exists(glance, p).flag

(***************************************************************************)
(* C4 amended: exists(P) is false while no write call has been made for    *)
(* the image-id of P; immediately after a successful put_content or        *)
(* stream_write on a path Q of image-id I, exists is true for Q and for    *)
(* the bulk-data path images/I/layer, and for any other property path of I *)
(* exactly when the record holds that property.                            *)
(***************************************************************************)
C4_ExistsAfterWrite ==
    /\ \A i \in ImageIds \ written : \A p \in PathsOf(i) : ~Exists(glance, p).flag
    /\ (lastOp.op \in {"put_content", "stream_write"} /\ lastOp.error = "none")
       => /\ Exists(glance, lastOp.path).flag
          /\ Exists(glance, LayerPath(PathId(lastOp.path), <<"layer">>)).flag
          /\ \A f \in PropFiles :
                Exists(glance, LayerPath(PathId(lastOp.path), f)).flag
                <=> \E h \in RecordsOf(glance, PathId(lastOp.path)) :
                       (<<"meta_">> \o f) \in DOMAIN glance[h].properties

\* a write has succeeded on an image-id one of whose property paths does not
\* exist, while the other image-id has never been written
C4_Witness ==
    /\ lastOp.op \in {"put_content", "stream_write"}
    /\ lastOp.error = "none"
    /\ \E p \in PathsOf(PathId(lastOp.path)) : ~Exists(glance, p).flag
    /\ ImageIds \ written # {}

(***************************************************************************)
(* C5: remove on a property path of an existing record deletes exactly     *)
(* that property: the record still exists, the property is absent (exists  *)
(* on the path is false), every other property keeps its value, and        *)
(* nothing else in the store changes.                                      *)
(***************************************************************************)
C5_RemoveProperty ==
    [][ (/\ lastOp'.op = "remove"
         /\ IsPropPath(lastOp'.path)
         /\ RecordsOf(glance, PathId(lastOp'.path)) # {})
        => /\ lastOp'.error = "none"
           /\ DOMAIN glance' = DOMAIN glance
           /\ ~Exists(glance', lastOp'.path).flag
           /\ \A h \in DOMAIN glance :
                 IF IdOf(glance, h) = PathId(lastOp'.path)
                 THEN /\ DOMAIN glance'[h].properties
                           = DOMAIN glance[h].properties \ {PathProp(lastOp'.path)}
                      /\ \A p \in DOMAIN glance'[h].properties :
                            glance'[h].properties[p] = glance[h].properties[p]
                      /\ glance'[h].name = glance[h].name
                      /\ glance'[h].data = glance[h].data
                 ELSE glance'[h] = glance[h] ]_vars

\* remove has run on a property path of a record that still holds another
\* property and no longer holds the removed one
C5_Witness ==
    /\ lastOp.op = "remove"
    /\ IsPropPath(lastOp.path)
    /\ \E h \in RecordsOf(glance, PathId(lastOp.path)) :
          /\ PathProp(lastOp.path) \notin DOMAIN glance[h].properties
          /\ \E f \in PropFiles : (<<"meta_">> \o f) \in DOMAIN glance[h].properties
    /\ PathId(lastOp.path) \in written

(***************************************************************************)
(* C6: after remove on the bulk-data path images/<id>/layer has returned,  *)
(* exists is false for every path of that image-id (the layer path and     *)
(* every property path), until a later write to that image-id.             *)
(***************************************************************************)
C6_RemoveLayerRemovesAll ==
    \A i \in removed : \A p \in PathsOf(i) : ~Exists(glance, p).flag

\* remove has just run on the bulk-data path of an image-id that had been
\* written
C6_Witness ==
    /\ lastOp.op = "remove"
    /\ IsLayerPath(lastOp.path)
    /\ PathId(lastOp.path) \in removed \cap written

(***************************************************************************)
(* C7: a tag_created event whose image-id matches no record raises no      *)
(* error and leaves the store as it was: no record is created and every    *)
(* record keeps its name, also one that holds the event's DisplayName.     *)
(***************************************************************************)
C7_TagCreatedUnknownId ==
    [][ (lastOp'.op = "tag_created" /\ RecordsOf(glance, lastOp'.event.value) = {})
        => /\ lastOp'.error = "none"
           /\ glance' = glance ]_vars

\* tag_created has run for an image-id without a record while another
\* record holds the event's DisplayName
C7_Witness ==
    /\ lastOp.op = "tag_created"
    /\ RecordsOf(glance, lastOp.event.value) = {}
    /\ Holders(glance, NameOfEvent(lastOp.event)) # {}

(***************************************************************************)
(* C8: after tag_deleted(namespace, repository, tag) no record holds the   *)
(* event's DisplayName, records holding any other name keep it, and the    *)
(* handler raises no error, also when no record held the DisplayName.      *)
(***************************************************************************)
C8_TagDeletedClearsName ==
    [][ lastOp'.op = "tag_deleted"
        => /\ lastOp'.error = "none"
           /\ Holders(glance', NameOfEvent(lastOp'.event)) = {}
           /\ DOMAIN glance' = DOMAIN glance
           /\ \A h \in DOMAIN glance :
                 glance[h].name # NameOfEvent(lastOp'.event)
                 => glance'[h].name = glance[h].name ]_vars

\* tag_deleted has run while a record holds another name
C8_Witness ==
    /\ lastOp.op = "tag_deleted"
    /\ \E h \in DOMAIN glance :
          glance[h].name # None /\ glance[h].name # NameOfEvent(lastOp.event)

(***************************************************************************)
(* C9: for every dispatched call the backend is chosen only from the path  *)
(* argument (the named 'path' argument, else the first positional argument *)
(* if it is a string, else none): the layer store for a path starting with *)
(* the images prefix, otherwise the alternate store for a path starting    *)
(* with the repositories prefix, otherwise the base store.  No other       *)
(* backend is invoked, and a forwarded call invokes exactly that backend   *)
(* with the caller's arguments unchanged.                                  *)
(***************************************************************************)
CallPath(args, kwargs) ==
    IF \E e \in kwargs : e.key = "path"
    THEN (CHOOSE e \in kwargs : e.key = "path").arg.val
    ELSE IF args # << >> /\ args[1].str THEN args[1].val
    ELSE << >>

BackendFor(path) ==
    IF Len(path) >= 1 /\ path[1] = "images" THEN "layers"
    ELSE IF Len(path) >= 1 /\ path[1] = "repositories" THEN "tags"
    ELSE "base"

\* the call reached the classification (its path argument is a string or absent)
Classified == disp.name # "none" /\ disp.error # "AttributeError"

C9_RoutedByPath ==
    Classified
    => /\ disp.target = BackendFor(CallPath(disp.args, disp.kwargs))
       /\ disp.invoked \subseteq {disp.target}
       /\ disp.returned = "result"
          => /\ disp.invoked = {disp.target}
             /\ disp.fargs = disp.args
             /\ disp.fkwargs = disp.kwargs
             /\ disp.target = "layers"
                => /\ lastOp.op = disp.name
                   /\ lastOp.path = CallPath(disp.args, disp.kwargs)

\* a call with a positional images path and a named repositories path has
\* been forwarded to the alternate store
C9_Witness ==
    /\ disp.returned = "result"
    /\ disp.invoked = {"tags"}
    /\ disp.args # << >>
    /\ BackendFor(disp.args[1].val) = "layers"

(***************************************************************************)
(* C10: a dispatched call fails with a dispatch error exactly when the     *)
(* backend classified for its path does not expose the requested name;     *)
(* when the backend exposes it, the call is answered by that backend (its  *)
(* result, or the attribute itself when it is not invocable).              *)
(***************************************************************************)
C10_DispatchErrorIffNotExposed ==
    Classified
    => /\ (disp.error = "DispatchFailure") <=> (Attr(disp.target, disp.name) = "absent")
       /\ Attr(disp.target, disp.name) = "method" => disp.invoked = {disp.target}
       /\ Attr(disp.target, disp.name) \in {"value", "falsy"}
          => disp.returned = "attribute" /\ disp.invoked = {}
(***************************************************************************)
(* C11: constructing the dispatcher with storage_alternate 's3' selects    *)
(* the object-store backend, with 'local' or no value the local-disk       *)
(* backend; any other value fails the construction, and then no call is    *)
(* ever dispatched; the selection never changes after construction.        *)
(***************************************************************************)
HasKind(config, kind) == [key |-> "storage_alternate", val |-> kind] \in config

C11_AlternateStoreSelection ==
    [][ /\ gs'.status = "built"
           => IF HasKind(gs'._config, <<"s3">>)
              THEN gs'._storage_tags = "S3Storage"
              ELSE /\ gs'._storage_tags = "LocalStorage"
                   /\ HasKind(gs'._config, <<"local">>) \/ gs'._config = {}
        /\ gs'.status = "failed"
           => /\ gs'._config # {}
              /\ ~HasKind(gs'._config, <<"s3">>)
              /\ ~HasKind(gs'._config, <<"local">>)
              /\ disp' = NoDispatch
              /\ lastOp' = NoOp
        /\ gs.status # "unbuilt" => gs' = gs ]_vars

\* a dispatcher built with storage_alternate 's3' has forwarded a call to
\* its alternate store
C11_Witness ==
    /\ gs.status = "built"
    /\ gs._storage_tags = "S3Storage"
    /\ disp.invoked = {"tags"}

(***************************************************************************)
(* C12: when two tag_created handlers for the same DisplayName and         *)
(* different existing image-ids run concurrently, each service call a      *)
(* step of its own, then once both handlers have finished at most one      *)
(* record holds the DisplayName.                                           *)
(***************************************************************************)
C12_ConcurrentTagCreated ==
    \A p \in Procs : \A q \in Procs :
        (/\ p # q
         /\ procs[p].pc = "done" /\ procs[q].pc = "done"
         /\ procs[p].op = "tag_created" /\ procs[q].op = "tag_created"
         /\ procs[p].image # NoImage /\ procs[q].image # NoImage
         /\ procs[p].event.value # procs[q].event.value
         /\ NameOfEvent(procs[p].event) = NameOfEvent(procs[q].event))
        => Cardinality(Holders(glance, NameOfEvent(procs[p].event))) <= 1

(***************************************************************************)
(* C13: in every reachable state at most one record has its identifier     *)
(* property equal to a given image-id, also when two writes on the same    *)
(* previously-unseen image-id run concurrently with the lookup and the     *)
(* create of _init_path interleaved.                                       *)
(***************************************************************************)
C13_OneRecordPerImageId ==
    \A i \in ImageIds : Cardinality(RecordsOf(glance, i)) <= 1

(***************************************************************************)
(* C14: a write through the wrong entry point (put_content on a bulk-data  *)
(* path, stream_write on a property path) fails with a usage-mismatch      *)
(* error and leaves the record store unchanged; on a previously-unseen     *)
(* image-id it creates no record, so exists on every path of that id is    *)
(* still false afterwards.                                                 *)
(***************************************************************************)
WrongEntryPoint(r) ==
    \/ r.op = "put_content" /\ IsLayerPath(r.path)
    \/ r.op = "stream_write" /\ IsPropPath(r.path)

C14_WrongEntryPointKeepsStore ==
    [][ WrongEntryPoint(lastOp')
        => /\ lastOp'.error = "UsageMismatch"
           /\ glance' = glance
           /\ RecordsOf(glance, PathId(lastOp'.path)) = {}
              => \A p \in PathsOf(PathId(lastOp'.path)) : ~Exists(glance', p).flag
      ]_vars

(***************************************************************************)
(* C15: records are created only by put_content and stream_write:          *)
(* get_content, stream_read, exists, get_size and remove never create a    *)
(* record, and the four reads leave the whole record store unchanged       *)
(* whether they succeed or fail.                                           *)
(***************************************************************************)
Reads == {"get_content", "stream_read", "exists", "get_size"}

C15_OnlyWritesCreate ==
    [][ /\ lastOp'.op \in Reads => glance' = glance
        /\ lastOp'.op = "remove" => DOMAIN glance' \subseteq DOMAIN glance
        /\ DOMAIN glance' \ DOMAIN glance # {}
           => lastOp'.op \in {"put_content", "stream_write"}
      ]_vars

C15_Witness ==
    /\ lastOp.op \in Reads
    /\ lastOp.error = "NotFound"
    /\ IsPropPath(lastOp.path) \/ IsLayerPath(lastOp.path)
    /\ RecordsOf(glance, PathId(lastOp.path)) = {}
    /\ glance # << >>

(***************************************************************************)
(* C16: the tag_created and tag_deleted handlers change only the name      *)
(* field of records: they never create or delete a record and never add,   *)
(* remove or change any property or the data of any record.                *)
(***************************************************************************)
C16_HandlersChangeOnlyNames ==
    [][ lastOp'.op \in {"tag_created", "tag_deleted"}
        => /\ DOMAIN glance' = DOMAIN glance
           /\ \A h \in DOMAIN glance :
                 glance'[h] = [glance[h] EXCEPT !.name = glance'[h].name]
      ]_vars

C16_Witness ==
    /\ lastOp.op = "tag_deleted"
    /\ \E h \in DOMAIN glance :
          /\ glance[h].name = None
          /\ glance[h].data # None
          /\ DOMAIN glance[h].properties # {<<"id">>}
    /\ \E h \in DOMAIN glance : glance[h].name # None

(***************************************************************************)
(* C17 (as stated): after any sequence of atomically handled tag_created   *)
(* and tag_deleted events with no record removed, for every tag created    *)
(* with an image-id whose record existed and not since deleted or          *)
(* re-created, the record of that image-id holds the tag's DisplayName,    *)
(* also when two different tags are created for the same image-id.         *)
(***************************************************************************)
LiveTags == {n \in DOMAIN regtags.live : regtags.live[n] # None}

C17_EveryLiveTagHeld ==
    \A n \in LiveTags :
        /\ RecordsOf(glance, regtags.live[n]) # {}
        /\ \A h \in RecordsOf(glance, regtags.live[n]) : glance[h].name = n

(***************************************************************************)
(* C17 (amended): the name is a single slot, so of the live tags of an     *)
(* image-id only the one created last is held: for every live tag that is  *)
(* the tag created last for its image-id, the record of that image-id      *)
(* holds the tag's DisplayName.                                            *)
(***************************************************************************)
C17_LatestLiveTagHeld ==
    \A n \in LiveTags :
        regtags.latest[regtags.live[n]] = n
        => /\ RecordsOf(glance, regtags.live[n]) # {}
           /\ \A h \in RecordsOf(glance, regtags.live[n]) : glance[h].name = n

C17_Witness ==
    /\ lastOp.op = "tag_created"
    /\ \E n \in LiveTags : \E m \in LiveTags :
          /\ n # m
          /\ regtags.live[n] = regtags.live[m]
          /\ regtags.latest[regtags.live[n]] = n
          /\ n = NameOfEvent(lastOp.event)

(***************************************************************************)
(* C18: every layer-store operation called with a path that does not have  *)
(* exactly three '/'-separated segments with the first equal to the images *)
(* prefix fails with an invalid-path error and leaves the record store     *)
(* unchanged, also when the dispatcher routed the path to the layer store  *)
(* only because it starts with the images prefix; a path of that shape     *)
(* never fails with the invalid-path error.                                *)
(***************************************************************************)
Slashes(path) == {i \in 1..Len(path) : path[i] = "/"}

WellFormed(path) ==
    /\ Cardinality(Slashes(path)) = 2
    /\ \E i \in Slashes(path) :
          /\ \A j \in Slashes(path) : i <= j
          /\ SubSeq(path, 1, i - 1) = <<"images">>

C18_InvalidPathFailsFirst ==
    [][ lastOp'.op \in StorageOps
        => IF WellFormed(lastOp'.path)
           THEN lastOp'.error # "InvalidPath"
           ELSE lastOp'.error = "InvalidPath" /\ glance' = glance
      ]_vars

C18_Witness ==
    /\ lastOp.error = "InvalidPath"
    /\ lastOp.op \in {"put_content", "stream_write"}
    /\ disp.invoked = {"layers"}
    /\ StartsWith(lastOp.path, <<"images">>)
    /\ glance # << >>

(***************************************************************************)
(* C19: for the reads the usage check takes precedence over not-found:     *)
(* get_content on a bulk-data path and stream_read on a property path fail *)
(* with a usage-mismatch error whether or not a record exists; with the    *)
(* right entry point get_content fails with not-found exactly when no      *)
(* record exists or the property is absent and otherwise returns the       *)
(* stored value, and stream_read fails with not-found exactly when no      *)
(* record exists.                                                          *)
(***************************************************************************)
Stored(g, path) ==
    {g[h].properties[PathProp(path)] :
        h \in {k \in RecordsOf(g, PathId(path)) : PathProp(path) \in DOMAIN g[k].properties}}

C19_ReadOutcome(g, r) ==
    /\ r.op = "get_content" /\ IsLayerPath(r.path) => r.error = "UsageMismatch"
    /\ r.op = "stream_read" /\ IsPropPath(r.path) => r.error = "UsageMismatch"
    /\ r.op = "get_content" /\ IsPropPath(r.path)
       => IF Stored(g, r.path) = {}
          THEN r.error = "NotFound"
          ELSE r.error = "none" /\ Stored(g, r.path) = {r.result}
    /\ r.op = "stream_read" /\ IsLayerPath(r.path)
       => IF RecordsOf(g, PathId(r.path)) = {}
          THEN r.error = "NotFound"
          ELSE r.error = "none"

C19_UsageBeforeNotFound ==
    /\ lastOp.op \in {"get_content", "stream_read"} => C19_ReadOutcome(glance, lastOp)
    /\ \A p \in GoodPaths :
          /\ C19_ReadOutcome(glance, GetContent(glance, p))
          /\ C19_ReadOutcome(glance, StreamRead(glance, p))

C19_Witness ==
    /\ lastOp.op = "get_content"
    /\ IsLayerPath(lastOp.path)
    /\ lastOp.error = "UsageMismatch"
    /\ RecordsOf(glance, PathId(lastOp.path)) = {}
    /\ glance # << >>

(***************************************************************************)
(* C20: get_size on a valid layer-namespace path fails with not-found      *)
(* exactly when no record exists for the path's image-id and otherwise     *)
(* returns the record's size whatever the filename is; so get_size         *)
(* succeeds on every path for which exists is true, and also on a property *)
(* path whose property is absent from an existing record.                  *)
(***************************************************************************)
C20_SizeOutcome(g, r) ==
    IF RecordsOf(g, PathId(r.path)) = {}
    THEN r.error = "NotFound"
    ELSE /\ r.error = "none"
         /\ \A h \in RecordsOf(g, PathId(r.path)) : r.size = g[h].size

C20_GetSizeByRecord ==
    /\ lastOp.op = "get_size" /\ WellFormed(lastOp.path) => C20_SizeOutcome(glance, lastOp)
    /\ \A i \in ImageIds : \A f \in PropFiles \cup {<<"layer">>} :
          /\ C20_SizeOutcome(glance, GetSize(glance, LayerPath(i, f)))
          /\ Exists(glance, LayerPath(i, f)).flag
             => GetSize(glance, LayerPath(i, f)).error = "none"

C20_Witness ==
    /\ lastOp.op = "get_size"
    /\ lastOp.error = "none"
    /\ lastOp.size > 0
    /\ IsPropPath(lastOp.path)
    /\ ~Exists(glance, lastOp.path).flag
====
